---- MODULE Spec2Model ----
(***************************************************************************)
(* Model of the zen-screentime tracker core:                               *)
(*   - session detection and the window inspectors (tracker.py 25-168),    *)
(*   - the accounting loop in its two implementations                      *)
(*     (ScreenTimeTracker.start, tracker.py 170-190, and                   *)
(*      TrackerThread.run, main.py 36-57),                                 *)
(*   - the daemon supervisor (start_daemon / stop_daemon / is_running,     *)
(*     tracker.py 192-282) as called from the command line                 *)
(*     (screentime.py 27-56, 149-156).                                     *)
(*                                                                         *)
(* Python's None is the empty sequence <<>>; an optional value v is <<v>>  *)
(* or, for a (app_name, window_title) tuple, the pair itself.  Text        *)
(* produced by external programs is a sequence of one-character strings.   *)
(* Time is counted in 1/Res of a second, so that int() truncation of a     *)
(* float difference is visible.                                            *)
(***************************************************************************)
EXTENDS Integers, Sequences, FiniteSets, TLC

None == <<>>

\* -------------------------------------------------------------------------
\* Bounds of the model
\* -------------------------------------------------------------------------
Res == 2            \* clock units per second
MaxLatency == 1     \* longest poll latency / oversleep of one tick, in units
MaxTicks == 4       \* ticks of the accounting loop explored
MaxInterval == 2    \* largest --interval value explored, in seconds
StartTime == 7      \* time.time() when the loop starts, in units (> 0)

Intervals == 1..MaxInterval

\* -------------------------------------------------------------------------
\* Text helpers (str.strip, str.split, "in")
\* -------------------------------------------------------------------------
NL == "\n"
Whitespace == {" ", NL}
Quote == {"\""}

RECURSIVE LStrip(_, _)
LStrip(s, cs) ==
    IF s = <<>> THEN <<>>
    ELSE IF Head(s) \in cs THEN LStrip(Tail(s), cs) ELSE s

RECURSIVE RStrip(_, _)
RStrip(s, cs) ==
    IF s = <<>> THEN <<>>
    ELSE IF s[Len(s)] \in cs THEN RStrip(SubSeq(s, 1, Len(s) - 1), cs) ELSE s

\* str.strip(chars): drop leading and trailing characters of the set cs
Strip(s, cs) == RStrip(LStrip(s, cs), cs)

\* c in s
Contains(s, c) == \E i \in 1..Len(s) : s[i] = c

\* index of the first c in s (s contains c)
FirstIndex(s, c) == CHOOSE i \in 1..Len(s) : s[i] = c /\ \A j \in 1..(i - 1) : s[j] # c

\* str.split(c): the list of the fields of s separated by c
RECURSIVE Split(_, _)
Split(s, c) ==
    IF ~Contains(s, c) THEN <<s>>
    ELSE LET i == FirstIndex(s, c)
         IN <<SubSeq(s, 1, i - 1)>> \o Split(SubSeq(s, i + 1, Len(s)), c)

Unknown == <<"U", "n", "k", "n", "o", "w", "n">>

\* Function results: a returned value or a raised exception
Ret(v, calls) == [kind |-> "ret", val |-> v, exc |-> "", calls |-> calls]
Raise(e, calls) == [kind |-> "raise", val |-> None, exc |-> e, calls |-> calls]

\* -------------------------------------------------------------------------
\* Environment of the process: os.environ and the programs found in PATH
\* -------------------------------------------------------------------------
Commands == {"which", "swaymsg", "hyprctl", "xdotool", "xprop"}
XdgValues == {"", "wayland", "X11", "tty"}      \* XDG_SESSION_TYPE ("" = unset)
DisplayValues == {"", ":0"}                     \* DISPLAY ("" = unset or empty)
Envs == [xdg : XdgValues, display : DisplayValues, path : SUBSET Commands]

\* str.lower on the values of XdgValues
Lower(s) == IF s = "X11" THEN "x11" ELSE s

\* _command_exists: runs `which command`; the launch of `which` itself is
\* not guarded, so a system without `which` raises FileNotFoundError.
_command_exists(env, command) ==
    IF "which" \notin env.path
    THEN Raise("FileNotFoundError", <<>>)
    ELSE Ret(command \in env.path, << <<"which", command>> >>)

_detect_session_type(env) ==
    LET session_type == Lower(env.xdg) IN
    IF session_type = "wayland" THEN Ret("wayland", <<>>)
    ELSE IF session_type = "x11" \/ env.display # "" THEN Ret("x11", <<>>)
    ELSE LET sway == _command_exists(env, "swaymsg") IN
         IF sway.kind = "raise" THEN sway
         ELSE IF sway.val THEN Ret("wayland", sway.calls)
         ELSE LET xdo == _command_exists(env, "xdotool") IN
              IF xdo.kind = "raise" THEN Raise(xdo.exc, sway.calls)
              ELSE IF xdo.val THEN Ret("x11", sway.calls \o xdo.calls)
              ELSE Ret("unknown", sway.calls \o xdo.calls)

\* -------------------------------------------------------------------------
\* Outcomes of one external program invocation (subprocess.run, timeout=1)
\*   ok          exit status 0, stdout decoded
\*   nonzero     exit status other than 0
\*   timeout     subprocess.TimeoutExpired
\*   undecodable stdout is not valid text: UnicodeDecodeError (a ValueError)
\* A program that is not in PATH raises FileNotFoundError (from env.path).
\* -------------------------------------------------------------------------
RunStates == {"ok", "nonzero", "timeout", "undecodable"}

TitleOutputs == { <<"p", NL>>, <<"q", NL>>, <<" ", "p", NL>> }
ClassOutputs ==
    { <<"W", " ", "=", " ", "\"", "i", "\"", ",", " ", "\"", "a", "\"", NL>>,
      <<"W", " ", "=", " ", "\"", "i", "\"", ",", " ", "\"", "b", "\"", NL>>,
      <<"W", "=", "\"", "a", "\"">>,
      <<"W", " ", "=", " ", "\"", "i", "\"", ",", " ", "\"", "a", "=", "b", "\"", NL>>,
      <<"W", ":", " ", "n", "o">> }

\* lines 83-97: application name from the exit status and stdout of xprop
ParseWMClass(st, out) ==
    IF st = "ok"
    THEN LET output == Strip(out, Whitespace) IN
         IF Contains(output, "=")
         THEN LET class_info == Strip(Split(output, "=")[2], Whitespace)
                  parts == Split(class_info, ",")
              IN IF Len(parts) >= 2
                 THEN Strip(Strip(parts[2], Whitespace), Quote)
                 ELSE Strip(Strip(parts[1], Whitespace), Quote)
         ELSE Unknown
    ELSE Unknown

\* The outcomes of the three queries of one X11 poll.  A query that is not
\* reached, and the stdout of a query that did not exit with status 0, is
\* never read: it is fixed to "nonzero" / <<>>.
TitleRuns == [st : {"ok"}, out : TitleOutputs] \cup [st : RunStates \ {"ok"}, out : {<<>>}]
ClassRuns == [st : {"ok"}, out : ClassOutputs] \cup [st : RunStates \ {"ok"}, out : {<<>>}]
NotRun == [st |-> "nonzero", out |-> <<>>]
X11Outcomes ==
    [id : RunStates \ {"ok"}, title : {NotRun}, cls : {NotRun}]
    \cup [id : {"ok"}, title : {t \in TitleRuns : t.st \in {"timeout", "undecodable"}}, cls : {NotRun}]
    \cup [id : {"ok"}, title : {t \in TitleRuns : t.st \in {"ok", "nonzero"}}, cls : ClassRuns]

\* what a launched program does to the caller, other than returning
Failure(st, calls) ==
    IF st = "timeout" THEN Raise("TimeoutExpired", calls)
    ELSE Raise("UnicodeDecodeError", calls)

\* the except clause of line 101
X11Caught == {"TimeoutExpired", "SubprocessError", "FileNotFoundError"}
X11Except(r) == IF r.kind = "raise" /\ r.exc \in X11Caught THEN Ret(None, r.calls) ELSE r

_get_active_window_x11(env, o) ==
    LET c1 == << <<"xdotool", "getactivewindow">> >>
        c2 == c1 \o << <<"xdotool", "getwindowname">> >>
        c3 == c2 \o << <<"xprop", "WM_CLASS">> >>
        body ==
          IF "xdotool" \notin env.path THEN Raise("FileNotFoundError", <<>>)
          ELSE IF o.id \in {"timeout", "undecodable"} THEN Failure(o.id, c1)
          ELSE IF o.id # "ok" THEN Ret(None, c1)
          ELSE IF o.title.st \in {"timeout", "undecodable"} THEN Failure(o.title.st, c2)
          ELSE LET window_title ==
                     IF o.title.st = "ok" THEN Strip(o.title.out, Whitespace) ELSE Unknown
               IN IF "xprop" \notin env.path THEN Raise("FileNotFoundError", c2)
                  ELSE IF o.cls.st \in {"timeout", "undecodable"} THEN Failure(o.cls.st, c3)
                  ELSE Ret(<<ParseWMClass(o.cls.st, o.cls.out), window_title>>, c3)
    IN X11Except(body)

\* -------------------------------------------------------------------------
\* Wayland backends.  json.loads of the stdout gives a tree node (Sway), a
\* flat record (Hyprland), or fails / gives a value without .get ("badjson").
\* A node: focused flag, app_id, window_properties.class and name (each
\* None when absent, null or empty), nodes and floating_nodes.
\* -------------------------------------------------------------------------
Leaf(f, app, cls, name) ==
    [focused |-> f, app_id |-> app, class |-> cls, name |-> name,
     nodes |-> <<>>, floating_nodes |-> <<>>]
Inner(ns, fs) ==
    [focused |-> FALSE, app_id |-> None, class |-> None, name |-> None,
     nodes |-> ns, floating_nodes |-> fs]

Trees ==
    { Inner(<<>>, <<>>),
      Inner(<< Inner(<< Leaf(FALSE, <<<<"a">>>>, None, <<<<"p">>>>),
                        Leaf(TRUE, <<<<"b">>>>, None, <<<<"q">>>>) >>, <<>>) >>, <<>>),
      Inner(<< Inner(<< Leaf(FALSE, <<<<"b">>>>, None, <<<<"q">>>>) >>,
                     << Leaf(TRUE, None, <<<<"a">>>>, <<<<"p">>>>) >>) >>, <<>>),
      Inner(<< Leaf(TRUE, None, None, None) >>, << Leaf(TRUE, <<<<"a">>>>, None, <<<<"p">>>>) >>),
      [Leaf(TRUE, <<<<"a">>>>, None, <<<<"p">>>>) EXCEPT
           !.nodes = << Leaf(TRUE, <<<<"b">>>>, None, <<<<"q">>>>) >>],
      Inner(<< Inner(<<>>, << Leaf(TRUE, <<<<"a">>>>, None, <<<<"p">>>>) >>) >>,
            << Leaf(TRUE, <<<<"b">>>>, None, <<<<"q">>>>) >>),
      Inner(<< Inner(<<>>, << Leaf(TRUE, <<<<"b">>>>, None, <<<<"q">>>>) >>),
               Leaf(TRUE, <<<<"a">>>>, None, <<<<"p">>>>) >>, <<>>),
      Inner(<<>>, << Inner(<< Leaf(FALSE, <<<<"a">>>>, None, <<<<"p">>>>) >>,
                           << Leaf(TRUE, <<<<"b">>>>, None, <<<<"q">>>>) >>) >>) }

HyprWindows ==
    { [class |-> <<<<"a">>>>, title |-> <<<<"p">>>>],
      [class |-> <<<<"b">>>>, title |-> <<<<"q">>>>],
      [class |-> None, title |-> None] }

JsonStates == RunStates \cup {"badjson"}
SwayRuns == [st : {"ok"}, out : Trees] \cup [st : JsonStates \ {"ok"}, out : {<<>>}]
HyprRuns == [st : {"ok"}, out : HyprWindows] \cup [st : JsonStates \ {"ok"}, out : {<<>>}]
WaylandOutcomes == [sway : SwayRuns, hypr : {NotRun}] \cup [sway : {NotRun}, hypr : HyprRuns]

\* dict.get(key, default) / `a or b` on an optional value
OrElse(opt, default) == IF opt = None THEN default ELSE opt[1]

\* _find_focused_window: <<node>> for the node found, None otherwise
RECURSIVE _find_focused_window(_)
RECURSIVE FirstFocused(_)
FirstFocused(children) ==
    IF children = <<>> THEN None
    ELSE LET result == _find_focused_window(Head(children)) IN
         IF result # None THEN result ELSE FirstFocused(Tail(children))
\* _find_focused_window that descends into the regular children only
RECURSIVE _find_focused_window_RegularOnly(_)
_find_focused_window_RegularOnly(node) ==
    IF node.focused THEN <<node>>
    ELSE LET hits == {i \in 1..Len(node.nodes) :
                         _find_focused_window_RegularOnly(node.nodes[i]) # None}
         IN IF hits = {} THEN None
            ELSE _find_focused_window_RegularOnly(
                     node.nodes[CHOOSE i \in hits : \A j \in hits : i <= j])

\* tracker.py 147-157
_find_focused_window(node) ==
    IF node.focused THEN <<node>>
    ELSE FirstFocused(node.nodes \o node.floating_nodes)

_get_active_window_wayland(env, o) ==
    LET sway == _command_exists(env, "swaymsg")
        cs == sway.calls \o << <<"swaymsg", "get_tree">> >>
    IN
    IF sway.kind = "raise" THEN Ret(None, sway.calls)
    ELSE IF sway.val
    THEN IF o.sway.st = "ok"
         THEN LET focused == _find_focused_window(o.sway.out) IN
              IF focused # None
              THEN Ret(<<OrElse(focused[1].app_id, OrElse(focused[1].class, Unknown)),
                         OrElse(focused[1].name, Unknown)>>, cs)
              ELSE Ret(None, cs)
         ELSE Ret(None, cs)
    ELSE LET hypr == _command_exists(env, "hyprctl")
             ch == sway.calls \o hypr.calls \o << <<"hyprctl", "activewindow">> >>
         IN
         IF hypr.kind = "raise" THEN Ret(None, sway.calls \o hypr.calls)
         ELSE IF hypr.val
         THEN IF o.hypr.st = "ok"
              THEN Ret(<<OrElse(o.hypr.out.class, Unknown), OrElse(o.hypr.out.title, Unknown)>>, ch)
              ELSE Ret(None, ch)
         ELSE Ret(None, sway.calls \o hypr.calls)

\* The outcomes one poll can meet: those of the X11 queries or those of the
\* Wayland query (the other side is never read and is fixed).
NoX11 == [id |-> "nonzero", title |-> NotRun, cls |-> NotRun]
NoWayland == [sway |-> NotRun, hypr |-> NotRun]
Outcomes == [x11 : X11Outcomes, wl : {NoWayland}] \cup [x11 : {NoX11}, wl : WaylandOutcomes]

\* get_active_window that prefers the X11 backend whenever xdotool is installed
get_active_window_ByTools(env, o) ==
    LET session_type == _detect_session_type(env) IN
    IF session_type.kind = "raise" THEN session_type
    ELSE IF session_type.val = "x11" \/ "xdotool" \in env.path
    THEN LET r == _get_active_window_x11(env, o.x11) IN
         [r EXCEPT !.calls = session_type.calls \o r.calls]
    ELSE IF session_type.val = "wayland"
    THEN LET r == _get_active_window_wayland(env, o.wl) IN
         [r EXCEPT !.calls = session_type.calls \o r.calls]
    ELSE Ret(None, session_type.calls)

\* get_active_window that tries the Wayland backend for every other session
get_active_window_TryWayland(env, o) ==
    LET session_type == _detect_session_type(env) IN
    IF session_type.kind = "raise" THEN session_type
    ELSE IF session_type.val = "x11"
    THEN LET r == _get_active_window_x11(env, o.x11) IN
         [r EXCEPT !.calls = session_type.calls \o r.calls]
    ELSE LET r == _get_active_window_wayland(env, o.wl) IN
         [r EXCEPT !.calls = session_type.calls \o r.calls]

\* tracker.py 159-168
get_active_window(env, o) ==
    LET session_type == _detect_session_type(env) IN
    IF session_type.kind = "raise" THEN session_type
    ELSE IF session_type.val = "x11"
    THEN LET r == _get_active_window_x11(env, o.x11) IN
         [r EXCEPT !.calls = session_type.calls \o r.calls]
    ELSE IF session_type.val = "wayland"
    THEN LET r == _get_active_window_wayland(env, o.wl) IN
         [r EXCEPT !.calls = session_type.calls \o r.calls]
    ELSE Ret(None, session_type.calls)

\* The installations the accounting loop is explored in: an X11 session with
\* its tools, an X11 session without xprop, a Sway and a Hyprland session, a
\* session of unknown kind, and a system without `which`.
LoopEnvs ==
    { [xdg |-> "X11", display |-> ":0", path |-> Commands],
      [xdg |-> "tty", display |-> ":0", path |-> {"which", "xdotool"}],
      [xdg |-> "wayland", display |-> "", path |-> {"which", "swaymsg"}],
      [xdg |-> "wayland", display |-> "", path |-> {"which", "hyprctl"}],
      [xdg |-> "", display |-> "", path |-> {"which"}],
      [xdg |-> "", display |-> "", path |-> {}] }

\* What the accounting loop sees of a poll: the value or the exception
PollResultsOf(e) ==
    { [kind |-> r.kind, val |-> r.val, exc |-> r.exc] :
        r \in { get_active_window(e, o) : o \in Outcomes } }

\* -------------------------------------------------------------------------
\* State
\* -------------------------------------------------------------------------
VARIABLES
    impl,           \* which loop runs: "start" (ScreenTimeTracker.start) or "run" (TrackerThread.run)
    env,            \* environment of the process
    interval,       \* self.interval, seconds
    pc,             \* position of the loop: "new", "loop", "dead" (exception escaped), "stopped"
    clock,          \* time.time() at the top of the next iteration, units
    last_window,    \* ScreenTimeTracker.last_window
    last_check,     \* ScreenTimeTracker.last_check
    running,        \* TrackerThread.running
    t_last_window,  \* local last_window of TrackerThread.run
    t_last_check,   \* local last_check of TrackerThread.run
    \* observations of the run so far
    ticks,          \* iterations completed
    now,            \* current_time of the latest iteration
    window_info,    \* poll result of the latest iteration
    recorded,       \* record_activity calls of the latest iteration
    notified,       \* GLib.idle_add calls of the latest iteration
    order,          \* the calls of the latest iteration, in program order
    total,          \* sum of the durations of all record_activity calls
    uniform,        \* every iteration so far saw the same sample, exactly interval apart
    lastSeen,       \* sample of the latest iteration before the latest one that had a sample
    gap,            \* number of consecutive iterations without sample right before the latest one
    \* a single poll, observed with its inputs
    outcome,        \* what the external programs did during the poll
    result,         \* what get_active_window returned or raised, and the programs it ran
    polled          \* a poll has been made

loopVars == <<impl, env, interval, pc, clock, last_window, last_check, running,
              t_last_window, t_last_check>>
obsVars == <<ticks, now, window_info, recorded, notified, order, total, uniform, lastSeen, gap>>
pollVars == <<outcome, result, polled>>

VARIABLES
    proc,           \* the process table: what runs under each PID
    pid_file,       \* the marker file tracker.pid: None when absent, <<text>> when present
    lastOp,         \* the latest command that returned, with its result
    lastSaw,        \* what the latest is_running / stop_daemon found in the marker
    overlap,        \* some command was started while an earlier one was still at work
    invocations     \* commands started so far

daemonVars == <<proc, pid_file, lastOp, lastSaw, overlap, invocations>>

VARIABLES
    blocklist,      \* the app_name column of the blocklist table
    db_result       \* what the latest blocklist command got back from the database

dbVars == <<blocklist, db_result>>

VARIABLES
    stop_called,    \* TrackerThread.stop() has been called on the thread
    pending         \* callbacks posted with GLib.idle_add that the main loop has not run yet

VARIABLES
    tracking,       \* ScreentimeWindow.tracking
    tracker_thread, \* ScreentimeWindow.tracker_thread: None or <<thread>>
    threads,        \* the TrackerThread objects created so far, and their run()
    wall            \* the wall clock shared by the threads of the GUI process, units

windowVars == <<tracking, tracker_thread, threads, wall>>
guiVars == <<stop_called, pending, windowVars>>
vars == <<loopVars, obsVars, pollVars, daemonVars, dbVars, guiVars>>

\* int(x) of a float difference x given in units: truncation toward zero
IntSeconds(x) == IF x >= 0 THEN x \div Res ELSE -((-x) \div Res)

\* truth value of an optional float (None and 0.0 are false)
Truthy(t) == t # None /\ t[1] # 0

\* Variants of StartBody with a slip in it, used to test the properties:
\* continuity compared on the application only
StartBody_AppOnly(lw, lc, current_time, wi) ==
    LET same == wi # None /\ lw # None /\ lw[1] = wi[1] /\ Truthy(lc)
        duration == IF same THEN IntSeconds(current_time - lc[1]) ELSE 0
    IN [last_window |-> IF wi # None THEN wi ELSE lw,
        last_check |-> <<current_time>>,
        recorded |-> IF same /\ duration > 0 THEN << <<wi[1], wi[2], duration>> >> ELSE <<>>,
        notified |-> <<>>,
        order |-> IF same /\ duration > 0 THEN <<"record_activity">> ELSE <<>>]

\* a span of one second is dropped
StartBody_OffByOne(lw, lc, current_time, wi) ==
    LET same == wi # None /\ lw = wi /\ Truthy(lc)
        duration == IF same THEN IntSeconds(current_time - lc[1]) ELSE 0
    IN [last_window |-> IF wi # None THEN wi ELSE lw,
        last_check |-> <<current_time>>,
        recorded |-> IF same /\ duration > 1 THEN << <<wi[1], wi[2], duration>> >> ELSE <<>>,
        notified |-> <<>>,
        order |-> IF same /\ duration > 1 THEN <<"record_activity">> ELSE <<>>]

\* last_check assigned inside the `if window_info:` block
StartBody_CheckOnSample(lw, lc, current_time, wi) ==
    LET same == wi # None /\ lw = wi /\ Truthy(lc)
        duration == IF same THEN IntSeconds(current_time - lc[1]) ELSE 0
    IN [last_window |-> IF wi # None THEN wi ELSE lw,
        last_check |-> IF wi # None THEN <<current_time>> ELSE lc,
        recorded |-> IF same /\ duration > 0 THEN << <<wi[1], wi[2], duration>> >> ELSE <<>>,
        notified |-> <<>>,
        order |-> IF same /\ duration > 0 THEN <<"record_activity">> ELSE <<>>]

\* last_window assigned outside the `if window_info:` block
StartBody_ResetOnFail(lw, lc, current_time, wi) ==
    LET same == wi # None /\ lw = wi /\ Truthy(lc)
        duration == IF same THEN IntSeconds(current_time - lc[1]) ELSE 0
    IN [last_window |-> wi,
        last_check |-> <<current_time>>,
        recorded |-> IF same /\ duration > 0 THEN << <<wi[1], wi[2], duration>> >> ELSE <<>>,
        notified |-> <<>>,
        order |-> IF same /\ duration > 0 THEN <<"record_activity">> ELSE <<>>]

\* the duration rounded up to whole seconds
StartBody_RoundsUp(lw, lc, current_time, wi) ==
    LET same == wi # None /\ lw = wi /\ Truthy(lc)
        duration == IF same THEN (current_time - lc[1] + Res - 1) \div Res ELSE 0
    IN [last_window |-> IF wi # None THEN wi ELSE lw,
        last_check |-> <<current_time>>,
        recorded |-> IF same /\ duration > 0 THEN << <<wi[1], wi[2], duration>> >> ELSE <<>>,
        notified |-> <<>>,
        order |-> IF same /\ duration > 0 THEN <<"record_activity">> ELSE <<>>]

\* lines 178-189 of tracker.py: one iteration of ScreenTimeTracker.start
\* after the poll returned window_info at current_time
StartBody(lw, lc, current_time, wi) ==
    LET same == wi # None /\ lw = wi /\ Truthy(lc)
        duration == IF same THEN IntSeconds(current_time - lc[1]) ELSE 0
    IN [last_window |-> IF wi # None THEN wi ELSE lw,
        last_check |-> <<current_time>>,
        recorded |-> IF same /\ duration > 0 THEN << <<wi[1], wi[2], duration>> >> ELSE <<>>,
        notified |-> <<>>,
        order |-> IF same /\ duration > 0 THEN <<"record_activity">> ELSE <<>>]

\* TrackerThread.run with the duration rounded to the nearest second
RunBody_Rounds(lw, lc, current_time, wi) ==
    LET same == wi # None /\ lw = wi /\ Truthy(lc)
        duration == IF same THEN (2 * (current_time - lc[1]) + Res) \div (2 * Res) ELSE 0
    IN [last_window |-> IF wi # None THEN wi ELSE lw,
        last_check |-> <<current_time>>,
        recorded |-> IF same /\ duration > 0 THEN << <<wi[1], wi[2], duration>> >> ELSE <<>>,
        notified |-> IF wi # None THEN << <<wi[1], wi[2]>> >> ELSE <<>>,
        order |-> (IF wi # None THEN <<"idle_add">> ELSE <<>>)
                  \o (IF same /\ duration > 0 THEN <<"record_activity">> ELSE <<>>)]

\* TrackerThread.run with the notification posted after the span is recorded
RunBody_RecordFirst(lw, lc, current_time, wi) ==
    LET same == wi # None /\ lw = wi /\ Truthy(lc)
        duration == IF same THEN IntSeconds(current_time - lc[1]) ELSE 0
    IN [last_window |-> IF wi # None THEN wi ELSE lw,
        last_check |-> <<current_time>>,
        recorded |-> IF same /\ duration > 0 THEN << <<wi[1], wi[2], duration>> >> ELSE <<>>,
        notified |-> IF wi # None THEN << <<wi[1], wi[2]>> >> ELSE <<>>,
        order |-> (IF same /\ duration > 0 THEN <<"record_activity">> ELSE <<>>)
                  \o (IF wi # None THEN <<"idle_add">> ELSE <<>>)]

\* lines 45-56 of main.py: one iteration of TrackerThread.run
RunBody(lw, lc, current_time, wi) ==
    LET same == wi # None /\ lw = wi /\ Truthy(lc)
        duration == IF same THEN IntSeconds(current_time - lc[1]) ELSE 0
    IN [last_window |-> IF wi # None THEN wi ELSE lw,
        last_check |-> <<current_time>>,
        recorded |-> IF same /\ duration > 0 THEN << <<wi[1], wi[2], duration>> >> ELSE <<>>,
        notified |-> IF wi # None THEN << <<wi[1], wi[2]>> >> ELSE <<>>,
        order |-> (IF wi # None THEN <<"idle_add">> ELSE <<>>)
                  \o (IF same /\ duration > 0 THEN <<"record_activity">> ELSE <<>>)]

Durations(spans) == IF spans = <<>> THEN 0 ELSE spans[1][3]

\* what an observer of the loop notes of an iteration
Observe(current_time, wi, b) ==
    /\ ticks' = ticks + 1
    /\ now' = <<current_time>>
    /\ window_info' = wi
    /\ recorded' = b.recorded
    /\ notified' = b.notified
    /\ order' = b.order
    /\ total' = total + Durations(b.recorded)
    /\ uniform' = IF ticks = 0 THEN wi # None
                  ELSE uniform /\ wi = window_info /\ current_time - now[1] = interval * Res
    /\ lastSeen' = IF window_info # None THEN window_info ELSE lastSeen
    /\ gap' = IF ticks >= 1 /\ window_info = None THEN gap + 1 ELSE 0

\* -------------------------------------------------------------------------
\* Processes and the marker file
\* -------------------------------------------------------------------------
FirstPid == 9       \* lowest PID explored
NPids == 4          \* number of PIDs explored
MaxInvocations == 2 \* command-line invocations explored

Pids == FirstPid..(FirstPid + NPids - 1)

\* a PID that names no process
\* (sent: the signals a stop_daemon has delivered; probe: what its liveness
\* probe found; lost: the marker it holds open was unlinked; raced: its
\* singleton test passed while another start_daemon had not written yet)
FreeProc == [st |-> "free", role |-> "", op |-> "", pc |-> "", parent |-> 0,
             child |-> 0, pid |-> 0, sig |-> "none",
             sent |-> <<>>, probe |-> "", lost |-> FALSE, raced |-> FALSE]

NoDaemon ==
    /\ proc = [p \in Pids |-> FreeProc]
    /\ pid_file = None
    /\ lastOp = "none"
    /\ lastSaw = "none"
    /\ overlap = FALSE
    /\ invocations = 0

\* database.py 43-47: a new database has an empty blocklist table
NoBlocklist == blocklist = {} /\ db_result = None

\* main.py 313-316: a thread that has just been started
MaxThreads == 2     \* TrackerThread objects explored
Horizon == 12       \* wall-clock units explored after StartTime
Threads == 1..MaxThreads

\* main.py 30-34, before the object exists ("unborn") and after __init__
NoThread == [st |-> "unborn", running |-> FALSE, last_window |-> None,
             last_check |-> None, wake |-> 0, span |-> None]

\* main.py 108-109
NoWindow ==
    /\ tracking = FALSE /\ tracker_thread = None
    /\ threads = [t \in Threads |-> NoThread]
    /\ wall = StartTime

\* no stop() yet, no callback posted, the window as constructed
NoStop == stop_called = FALSE /\ pending = 0 /\ NoWindow

NoPoll ==
    /\ outcome = [x11 |-> NoX11, wl |-> NoWayland]
    /\ result = Ret(None, <<>>)
    /\ polled = FALSE

LoopInit ==
    /\ impl \in {"start", "run"}
    /\ env \in LoopEnvs
    /\ interval \in Intervals
    /\ pc = "new"
    /\ clock = StartTime
    /\ last_window = None /\ last_check = None
    /\ running = FALSE
    /\ t_last_window = None /\ t_last_check = None
    /\ ticks = 0 /\ now = None /\ window_info = None
    /\ recorded = <<>> /\ notified = <<>> /\ order = <<>> /\ total = 0
    /\ uniform = FALSE /\ lastSeen = None /\ gap = 0
    /\ NoPoll
    /\ NoDaemon
    /\ NoBlocklist
    /\ NoStop

\* tracker.py 170-172: start() prints the session type, then enters the loop
StartBegin ==
    /\ impl = "start" /\ pc = "new"
    /\ pc' = IF _detect_session_type(env).kind = "raise" THEN "dead" ELSE "loop"
    /\ UNCHANGED <<impl, env, interval, clock, last_window, last_check, running,
                   t_last_window, t_last_check, obsVars>>
    /\ UNCHANGED <<pollVars, daemonVars, dbVars, guiVars>>

\* tracker.py 174-190: one iteration, the sleep included
StartTick ==
    /\ impl = "start" /\ pc = "loop" /\ ticks < MaxTicks
    /\ \E r \in PollResultsOf(env), lat \in 0..MaxLatency :
         IF r.kind = "raise"
         THEN /\ pc' = "dead"
              /\ UNCHANGED <<clock, last_window, last_check, obsVars>>
         ELSE LET b == StartBody(last_window, last_check, clock, r.val) IN
              /\ last_window' = b.last_window
              /\ last_check' = b.last_check
              /\ Observe(clock, r.val, b)
              /\ clock' = clock + interval * Res + lat
              /\ pc' = pc
    /\ UNCHANGED <<impl, env, interval, running, t_last_window, t_last_check>>
    /\ UNCHANGED <<pollVars, daemonVars, dbVars, guiVars>>

\* main.py 36-39
RunBegin ==
    /\ impl = "run" /\ pc = "new"
    /\ running' = TRUE
    /\ t_last_window' = None /\ t_last_check' = None
    /\ pc' = "loop"
    /\ UNCHANGED <<impl, env, interval, clock, last_window, last_check, obsVars>>
    /\ UNCHANGED <<pollVars, daemonVars, dbVars, guiVars>>

\* main.py 41-57: one iteration, the sleep included
RunTick ==
    /\ impl = "run" /\ pc = "loop" /\ running /\ ticks < MaxTicks
    /\ \E r \in PollResultsOf(env), lat \in 0..MaxLatency :
         IF r.kind = "raise"
         THEN /\ pc' = "dead"
              /\ UNCHANGED <<clock, t_last_window, t_last_check, obsVars, pending>>
         ELSE LET b == RunBody(t_last_window, t_last_check, clock, r.val) IN
              /\ t_last_window' = b.last_window
              /\ t_last_check' = b.last_check
              /\ Observe(clock, r.val, b)
              /\ pending' = pending + Len(b.notified)
              /\ clock' = clock + interval * Res + lat
              /\ pc' = pc
    /\ UNCHANGED <<impl, env, interval, running, last_window, last_check, stop_called,
                   windowVars>>
    /\ UNCHANGED <<pollVars, daemonVars, dbVars>>

\* main.py 41: the while condition is false
RunExit ==
    /\ impl = "run" /\ pc = "loop" /\ ~running
    /\ pc' = "stopped"
    /\ UNCHANGED <<impl, env, interval, clock, last_window, last_check, running,
                   t_last_window, t_last_check, obsVars>>
    /\ UNCHANGED <<pollVars, daemonVars, dbVars, guiVars>>

\* main.py 59-60, called once by stop_tracking (main.py 321-324) at any moment
\* after Thread.start(): also before run() has set running
ThreadStop ==
    /\ impl = "run" /\ pc \in {"new", "loop"} /\ ~stop_called
    /\ running' = FALSE
    /\ stop_called' = TRUE
    /\ pending' = pending
    /\ UNCHANGED windowVars
    /\ UNCHANGED <<impl, env, interval, pc, clock, last_window, last_check,
                   t_last_window, t_last_check, obsVars>>
    /\ UNCHANGED <<pollVars, daemonVars, dbVars>>

\* the applications named on the command line of `screentime blocklist`
BlockApps == {<<"a">>}

\* screentime.py 174-183 and database.py 164-175: the INSERT fails on a
\* name that is already there
add_to_blocklist ==
    /\ \E app_name \in BlockApps :
         /\ blocklist' = blocklist \cup {app_name}
         /\ db_result' = <<app_name \notin blocklist>>
    /\ UNCHANGED <<loopVars, obsVars, pollVars, daemonVars, guiVars>>

\* screentime.py 186-195 and database.py 177-182: DELETE, rowcount > 0
remove_from_blocklist ==
    /\ \E app_name \in BlockApps :
         /\ blocklist' = blocklist \ {app_name}
         /\ db_result' = <<app_name \in blocklist>>
    /\ UNCHANGED <<loopVars, obsVars, pollVars, daemonVars, guiVars>>

\* the GTK main loop is idle and runs one posted callback (update_status,
\* main.py 331-334)
IdleDispatch ==
    /\ pending > 0
    /\ pending' = pending - 1
    /\ stop_called' = stop_called
    /\ UNCHANGED windowVars
    /\ UNCHANGED <<loopVars, obsVars, pollVars, daemonVars, dbVars>>

Next ==
    \/ StartBegin \/ StartTick \/ RunBegin \/ RunTick \/ RunExit \/ ThreadStop
    \/ IdleDispatch

Spec == LoopInit /\ [][Next]_vars

\* The accounting loop of the tracker next to the blocklist commands, which
\* run in processes of their own on the same database
BlocklistInit == LoopInit /\ impl = "start"
BlocklistNext == StartBegin \/ StartTick \/ add_to_blocklist \/ remove_from_blocklist
SpecBlocklist == BlocklistInit /\ [][BlocklistNext]_vars

\* -------------------------------------------------------------------------
\* The window of the GUI (main.py 304-329) with the threads it starts; every
\* TrackerThread runs TrackerThread.run on a ScreenTimeTracker of its own
\* -------------------------------------------------------------------------
GuiInterval == 5    \* main.py 30: interval=5, the window passes no other

GuiInit ==
    /\ impl = "run"
    /\ env = [xdg |-> "wayland", display |-> "", path |-> {"which", "hyprctl"}]
    /\ interval = GuiInterval
    /\ pc = "new"
    /\ clock = StartTime
    /\ last_window = None /\ last_check = None
    /\ running = FALSE
    /\ t_last_window = None /\ t_last_check = None
    /\ ticks = 0 /\ now = None /\ window_info = None
    /\ recorded = <<>> /\ notified = <<>> /\ order = <<>> /\ total = 0
    /\ uniform = FALSE /\ lastSeen = None /\ gap = 0
    /\ NoPoll
    /\ NoDaemon
    /\ NoBlocklist
    /\ NoStop

GuiFrame == UNCHANGED <<loopVars, obsVars, pollVars, daemonVars, dbVars, stop_called>>

\* main.py 304-329: a click on the track button starts or stops tracking
on_track_clicked ==
    /\ IF ~tracking
       THEN \E t \in Threads :
              /\ threads[t].st = "unborn"
              /\ \A u \in Threads : u < t => threads[u].st # "unborn"
              /\ tracker_thread = None
              /\ tracker_thread' = <<t>>
              /\ threads' = [threads EXCEPT ![t].st = "started"]
              /\ tracking' = TRUE
       ELSE /\ threads' = IF tracker_thread # None
                          THEN [threads EXCEPT ![tracker_thread[1]].running = FALSE]
                          ELSE threads
            /\ tracker_thread' = None
            /\ tracking' = FALSE
    /\ UNCHANGED <<wall, pending>>
    /\ GuiFrame

\* main.py 37-39: run() begins
ThreadBegin(t) ==
    /\ threads[t].st = "started"
    /\ threads' = [threads EXCEPT ![t].st = "loop", ![t].running = TRUE,
                                  ![t].last_window = None, ![t].last_check = None,
                                  ![t].wake = wall]
    /\ UNCHANGED <<tracking, tracker_thread, wall, pending>>
    /\ GuiFrame

\* main.py 41-57: the thread is awake, the flag is set: one iteration, up to
\* the call of time.sleep
ThreadTick(t) ==
    /\ threads[t].st = "loop" /\ threads[t].wake <= wall /\ threads[t].running
    /\ \E r \in PollResultsOf(env), lat \in 0..MaxLatency :
         IF r.kind = "raise"
         THEN /\ threads' = [threads EXCEPT ![t].st = "dead"]
              /\ pending' = pending
         ELSE LET b == RunBody(threads[t].last_window, threads[t].last_check, wall, r.val) IN
              /\ threads' = [threads EXCEPT
                               ![t].last_window = b.last_window,
                               ![t].last_check = b.last_check,
                               ![t].span = IF b.recorded # <<>>
                                           THEN <<threads[t].last_check[1], wall>>
                                           ELSE threads[t].span,
                               ![t].wake = wall + interval * Res + lat]
              /\ pending' = pending + Len(b.notified)
    /\ UNCHANGED <<tracking, tracker_thread, wall>>
    /\ GuiFrame

\* main.py 41: the thread is awake and finds the flag cleared
ThreadExit(t) ==
    /\ threads[t].st = "loop" /\ threads[t].wake <= wall /\ ~threads[t].running
    /\ threads' = [threads EXCEPT ![t].st = "exited"]
    /\ UNCHANGED <<tracking, tracker_thread, wall, pending>>
    /\ GuiFrame

\* time passes while every thread in its loop is asleep
WallAdvance ==
    /\ wall < StartTime + Horizon
    /\ \A t \in Threads : threads[t].st = "loop" => threads[t].wake > wall
    /\ wall' = wall + 1
    /\ UNCHANGED <<tracking, tracker_thread, threads, pending>>
    /\ GuiFrame

GuiNext ==
    \/ on_track_clicked
    \/ \E t \in Threads : ThreadBegin(t)
    \/ \E t \in Threads : ThreadTick(t)
    \/ \E t \in Threads : ThreadExit(t)
    \/ WallAdvance
    \/ IdleDispatch

SpecGui == GuiInit /\ [][GuiNext]_vars

\* -------------------------------------------------------------------------
\* A single poll in any environment, observed with its inputs
\* -------------------------------------------------------------------------
PollInit ==
    /\ impl = "start" /\ env \in Envs /\ interval = 1 /\ pc = "new"
    /\ clock = StartTime
    /\ last_window = None /\ last_check = None
    /\ running = FALSE
    /\ t_last_window = None /\ t_last_check = None
    /\ ticks = 0 /\ now = None /\ window_info = None
    /\ recorded = <<>> /\ notified = <<>> /\ order = <<>> /\ total = 0
    /\ uniform = FALSE /\ lastSeen = None /\ gap = 0
    /\ NoPoll
    /\ NoDaemon
    /\ NoBlocklist
    /\ NoStop

\* tracker.py 159-168
Poll ==
    /\ \E o \in Outcomes :
         /\ outcome' = o
         /\ result' = get_active_window(env, o)
    /\ polled' = TRUE
    /\ UNCHANGED <<loopVars, obsVars, daemonVars, dbVars, guiVars>>

SpecPoll == PollInit /\ [][Poll]_vars

\* -------------------------------------------------------------------------
\* The daemon supervisor (tracker.py 192-282) and the commands that call it
\* (screentime.py: start --daemon, stop, status)
\* -------------------------------------------------------------------------
DigitChars == <<"0", "1", "2", "3", "4", "5", "6", "7", "8", "9">>

\* str(pid)
RECURSIVE StrOfInt(_)
StrOfInt(n) ==
    IF n < 10 THEN <<DigitChars[n + 1]>>
    ELSE StrOfInt(n \div 10) \o <<DigitChars[(n % 10) + 1]>>

RECURSIVE DecimalValue(_)
DecimalValue(t) ==
    IF t = <<>> THEN 0
    ELSE 10 * DecimalValue(SubSeq(t, 1, Len(t) - 1))
         + (CHOOSE d \in 0..9 : DigitChars[d + 1] = t[Len(t)])

\* int(text.strip()): <<n>>, or None for the ValueError of an empty or
\* non-numeric text
IntOfStr(text) ==
    LET t == Strip(text, Whitespace) IN
    IF t = <<>> \/ \E i \in 1..Len(t) : \A d \in 1..10 : DigitChars[d] # t[i]
    THEN None
    ELSE <<DecimalValue(t)>>

\* errno of os.kill(pid, sig) in the process table pt
KillError(pt, pid) ==
    IF pid \notin Pids \/ pt[pid].st = "free" THEN "ESRCH"
    ELSE IF pt[pid].role = "foreign" THEN "EPERM"
    ELSE "ok"

\* process q terminates: its zombie children are reaped, its live children
\* are adopted by init, and q stays a zombie while its parent lives
Die(pt, q) ==
    [r \in Pids |->
        IF r = q
        THEN IF pt[q].parent \in Pids /\ pt[pt[q].parent].st = "live"
             THEN [pt[q] EXCEPT !.st = "zombie", !.sig = "none"]
             ELSE FreeProc
        ELSE IF pt[r].parent = q /\ pt[r].st = "zombie" THEN FreeProc
        ELSE IF pt[r].parent = q /\ pt[r].st = "live" THEN [pt[r] EXCEPT !.parent = 0]
        ELSE pt[r]]

\* what the marker pf holds: "absent", "unparsable", "dead" (no process of
\* that PID), "denied" (a process of another user) or "alive"
MarkerState(pt, pf) ==
    IF pf = None THEN "absent"
    ELSE IF IntOfStr(pf[1]) = None THEN "unparsable"
    ELSE IF KillError(pt, IntOfStr(pf[1])[1]) = "ESRCH" THEN "dead"
    ELSE IF KillError(pt, IntOfStr(pf[1])[1]) = "EPERM" THEN "denied"
    ELSE "alive"

\* the marker is unlinked: a start_daemon that holds it open for writing
\* (between open and close) keeps a file that has no name any more
Unlinked(pt, pf, pf2) ==
    IF pf # None /\ pf2 = None
    THEN [q \in Pids |-> IF pt[q].st = "live" /\ pt[q].pc = "s_close"
                         THEN [pt[q] EXCEPT !.lost = TRUE] ELSE pt[q]]
    ELSE pt

\* f.write(text) at offset 0 of a file that holds old
Overlay(old, text) ==
    IF Len(text) >= Len(old) THEN text ELSE text \o SubSeq(old, Len(text) + 1, Len(old))

\* is_running with the marker removed although the process is gone: no clean-up
is_running_NoCleanup(pt, pf) ==
    IF pf = None THEN [kind |-> "ret", val |-> FALSE, pid_file |-> pf]
    ELSE LET pid == IntOfStr(pf[1]) IN
         IF pid = None THEN [kind |-> "ret", val |-> FALSE, pid_file |-> None]
         ELSE IF KillError(pt, pid[1]) = "ESRCH"
         THEN [kind |-> "ret", val |-> FALSE, pid_file |-> pf]
         ELSE IF KillError(pt, pid[1]) = "EPERM"
         THEN [kind |-> "raise", val |-> FALSE, pid_file |-> pf]
         ELSE [kind |-> "ret", val |-> TRUE, pid_file |-> pf]

\* is_running (tracker.py 265-282), one step: result and the marker after it
is_running(pt, pf) ==
    IF pf = None THEN [kind |-> "ret", val |-> FALSE, pid_file |-> pf]
    ELSE LET pid == IntOfStr(pf[1]) IN
         IF pid = None THEN [kind |-> "ret", val |-> FALSE, pid_file |-> None]
         ELSE IF KillError(pt, pid[1]) = "ESRCH"
         THEN [kind |-> "ret", val |-> FALSE, pid_file |-> None]
         ELSE IF KillError(pt, pid[1]) = "EPERM"
         THEN [kind |-> "raise", val |-> FALSE, pid_file |-> pf]
         ELSE [kind |-> "ret", val |-> TRUE, pid_file |-> pf]

\* a start_daemon still at work in one of its processes, or any command
Busy ==
    \E q \in Pids :
        /\ proc[q].st = "live"
        /\ \/ proc[q].role \in {"cli", "mid"}
           \/ proc[q].role = "daemon" /\ proc[q].pc # "d_loop"

FirstPc(op) == IF op = "start" THEN "s_check" ELSE IF op = "stop" THEN "k_begin" ELSE "q_check"

\* the shell runs `screentime start --daemon`, `screentime stop` or `screentime status`
Invoke ==
    /\ invocations < MaxInvocations
    /\ \E p \in Pids, op \in {"start", "stop", "status"} :
         /\ proc[p].st = "free"
         /\ proc' = [proc EXCEPT ![p] = [FreeProc EXCEPT !.st = "live", !.role = "cli",
                                                         !.op = op, !.pc = FirstPc(op)]]
    /\ invocations' = invocations + 1
    /\ overlap' = (overlap \/ Busy)
    /\ UNCHANGED <<pid_file, lastOp, lastSaw>>
    /\ UNCHANGED <<loopVars, obsVars, pollVars, dbVars, guiVars>>

\* the PIDs the program holds: in the marker, or read from it by a stop_daemon
HeldPids ==
    {q \in Pids : pid_file # None /\ IntOfStr(pid_file[1]) = <<q>>}
    \cup {proc[p].pid : p \in {q \in Pids : proc[q].st = "live" /\ proc[q].role = "cli"}}

\* a process that is no part of the program takes a PID the program holds
\* (any other PID it takes is invisible to the program): a process of the
\* same user ("other") or of another user ("foreign")
OtherSpawn ==
    /\ \A q \in Pids : proc[q].role \notin {"other", "foreign"}
    /\ \E p \in Pids \cap HeldPids, r \in {"other", "foreign"} :
         /\ proc[p].st = "free"
         /\ proc' = [proc EXCEPT ![p] = [FreeProc EXCEPT !.st = "live", !.role = r]]
    /\ UNCHANGED <<pid_file, lastOp, lastSaw, overlap, invocations, loopVars, obsVars, pollVars, dbVars, guiVars>>

\* that process ends
OtherExit ==
    /\ \E p \in Pids :
         /\ proc[p].st = "live" /\ proc[p].role \in {"other", "foreign"}
         /\ proc' = Die(proc, p)
    /\ UNCHANGED <<pid_file, lastOp, lastSaw, overlap, invocations, loopVars, obsVars, pollVars, dbVars, guiVars>>

AtPc(p, role, pc_) == proc[p].st = "live" /\ proc[p].role = role /\ proc[p].pc = pc_

\* the function returns outcome res in process p, which then leaves
Return(pt, p, res) ==
    /\ proc' = [pt EXCEPT ![p].pc = "exit"]
    /\ lastOp' = res

\* another start_daemon has passed its singleton test and not yet written
InFlight(p) ==
    \E q \in Pids \ {p} :
        proc[q].st = "live" /\ proc[q].role = "cli" /\ proc[q].pc \in {"s_fork", "s_open", "s_close"}

\* start_daemon with an exclusive test: it gives up when another one is at work
StartCheck_Exclusive(p) ==
    /\ AtPc(p, "cli", "s_check")
    /\ LET r == is_running(proc, pid_file)
           pt == Unlinked(proc, pid_file, r.pid_file) IN
       /\ pid_file' = r.pid_file
       /\ lastSaw' = MarkerState(proc, pid_file)
       /\ IF r.kind = "raise" THEN Return(pt, p, "raised")
          ELSE IF r.val \/ InFlight(p) THEN Return(pt, p, "start_already")
          ELSE /\ proc' = [pt EXCEPT ![p].pc = "s_fork", ![p].raced = InFlight(p)]
               /\ lastOp' = lastOp
    /\ UNCHANGED <<overlap, invocations, loopVars, obsVars, pollVars, dbVars, guiVars>>

\* start_daemon that tidies the marker up when it finds the tracker running
StartCheck_Rewrite(p) ==
    /\ AtPc(p, "cli", "s_check")
    /\ LET r == is_running(proc, pid_file)
           pt == Unlinked(proc, pid_file, r.pid_file) IN
       /\ lastSaw' = MarkerState(proc, pid_file)
       /\ IF r.kind = "raise" THEN pid_file' = r.pid_file /\ Return(pt, p, "raised")
          ELSE IF r.val THEN pid_file' = None /\ Return(pt, p, "start_already")
          ELSE /\ proc' = [pt EXCEPT ![p].pc = "s_fork", ![p].raced = InFlight(p)]
               /\ pid_file' = r.pid_file
               /\ lastOp' = lastOp
    /\ UNCHANGED <<overlap, invocations, loopVars, obsVars, pollVars, dbVars, guiVars>>

\* tracker.py 194-200: the singleton test of start_daemon
StartCheck(p) ==
    /\ AtPc(p, "cli", "s_check")
    /\ LET r == is_running(proc, pid_file)
           pt == Unlinked(proc, pid_file, r.pid_file) IN
       /\ pid_file' = r.pid_file
       /\ lastSaw' = MarkerState(proc, pid_file)
       /\ IF r.kind = "raise" THEN Return(pt, p, "raised")
          ELSE IF r.val THEN Return(pt, p, "start_already")
          ELSE /\ proc' = [pt EXCEPT ![p].pc = "s_fork", ![p].raced = InFlight(p)]
               /\ lastOp' = lastOp
    /\ UNCHANGED <<overlap, invocations, loopVars, obsVars, pollVars, dbVars, guiVars>>

\* tracker.py 203: the first fork; the child is a copy of the parent
StartFork(p) ==
    /\ AtPc(p, "cli", "s_fork")
    /\ \E c \in Pids :
         /\ proc[c].st = "free"
         /\ proc' = [proc EXCEPT ![p].pc = "s_open", ![p].child = c,
                                 ![c] = [FreeProc EXCEPT !.st = "live", !.role = "mid",
                                                         !.pc = "m_setsid", !.parent = p,
                                                         !.raced = proc[p].raced]]
    /\ UNCHANGED <<pid_file, lastOp, lastSaw, overlap, invocations, loopVars, obsVars, pollVars, dbVars, guiVars>>

\* tracker.py 207: open(pid_file, 'w') creates the marker or empties it
StartOpen(p) ==
    /\ AtPc(p, "cli", "s_open")
    /\ pid_file' = << <<>> >>
    /\ proc' = [proc EXCEPT ![p].pc = "s_close"]
    /\ UNCHANGED <<lastOp, lastSaw, overlap, invocations, loopVars, obsVars, pollVars, dbVars, guiVars>>

\* tracker.py 208-209: the PID that fork returned reaches the file when the
\* with block closes it; start_daemon returns
StartWrite(p) ==
    /\ AtPc(p, "cli", "s_close")
    /\ pid_file' = IF proc[p].lost THEN pid_file
                   ELSE <<Overlay(pid_file[1], StrOfInt(proc[p].child))>>
    /\ Return(proc, p, "start_ok")
    /\ UNCHANGED <<lastSaw, overlap, invocations, loopVars, obsVars, pollVars, dbVars, guiVars>>

\* tracker.py 212-215: the child becomes session leader and forks again
MidFork(m) ==
    /\ AtPc(m, "mid", "m_setsid")
    /\ \E c \in Pids :
         /\ proc[c].st = "free"
         /\ proc' = [proc EXCEPT ![m].pc = "m_exit", ![m].child = c,
                                 ![c] = [FreeProc EXCEPT !.st = "live", !.role = "daemon",
                                                         !.pc = "d_redirect", !.parent = m,
                                                         !.raced = proc[m].raced]]
    /\ UNCHANGED <<pid_file, lastOp, lastSaw, overlap, invocations, loopVars, obsVars, pollVars, dbVars, guiVars>>

\* tracker.py 216-217: os._exit(0) in the intermediate process
MidExit(m) ==
    /\ AtPc(m, "mid", "m_exit")
    /\ proc' = Die(proc, m)
    /\ UNCHANGED <<pid_file, lastOp, lastSaw, overlap, invocations, loopVars, obsVars, pollVars, dbVars, guiVars>>

\* tracker.py 219-229: the grandchild redirects its streams and enters start()
DaemonLoop(d) ==
    /\ AtPc(d, "daemon", "d_redirect")
    /\ proc' = [proc EXCEPT ![d].pc = "d_loop"]
    /\ UNCHANGED <<pid_file, lastOp, lastSaw, overlap, invocations, loopVars, obsVars, pollVars, dbVars, guiVars>>

\* stop_daemon that leaves an unreadable marker where it is
StopBegin_KeepGarbage(p) ==
    /\ AtPc(p, "cli", "k_begin")
    /\ lastSaw' = MarkerState(proc, pid_file)
    /\ IF pid_file = None
       THEN pid_file' = pid_file /\ Return(proc, p, "stop_false")
       ELSE LET pid == IntOfStr(pid_file[1]) IN
            IF pid = None
            THEN pid_file' = pid_file /\ Return(proc, p, "stop_false")
            ELSE IF KillError(proc, pid[1]) = "ESRCH"
            THEN pid_file' = None /\ Return(Unlinked(proc, pid_file, None), p, "stop_false")
            ELSE IF KillError(proc, pid[1]) = "EPERM"
            THEN pid_file' = pid_file /\ Return(proc, p, "raised")
            ELSE /\ pid_file' = pid_file
                 /\ lastOp' = lastOp
                 /\ proc' = [q \in Pids |->
                               IF q = p
                               THEN [proc[p] EXCEPT !.pc = "k_probe", !.pid = pid[1],
                                        !.sent = <<"TERM">>,
                                        !.sig = IF pid[1] = p THEN "term" ELSE proc[p].sig]
                               ELSE IF q = pid[1] /\ proc[q].st = "live"
                               THEN [proc[q] EXCEPT !.sig = "term"]
                               ELSE proc[q]]
    /\ UNCHANGED <<overlap, invocations, loopVars, obsVars, pollVars, dbVars, guiVars>>

\* tracker.py 233-241: stop_daemon up to the SIGTERM
StopBegin(p) ==
    /\ AtPc(p, "cli", "k_begin")
    /\ lastSaw' = MarkerState(proc, pid_file)
    /\ IF pid_file = None
       THEN pid_file' = pid_file /\ Return(proc, p, "stop_false")
       ELSE LET pid == IntOfStr(pid_file[1]) IN
            IF pid = None
            THEN pid_file' = None /\ Return(Unlinked(proc, pid_file, None), p, "stop_false")
            ELSE IF KillError(proc, pid[1]) = "ESRCH"
            THEN pid_file' = None /\ Return(Unlinked(proc, pid_file, None), p, "stop_false")
            ELSE IF KillError(proc, pid[1]) = "EPERM"
            THEN pid_file' = pid_file /\ Return(proc, p, "raised")
            ELSE /\ pid_file' = pid_file
                 /\ lastOp' = lastOp
                 /\ proc' = [q \in Pids |->
                               IF q = p
                               THEN [proc[p] EXCEPT !.pc = "k_probe", !.pid = pid[1],
                                        !.sent = <<"TERM">>,
                                        !.sig = IF pid[1] = p THEN "term" ELSE proc[p].sig]
                               ELSE IF q = pid[1] /\ proc[q].st = "live"
                               THEN [proc[q] EXCEPT !.sig = "term"]
                               ELSE proc[q]]
    /\ UNCHANGED <<overlap, invocations, loopVars, obsVars, pollVars, dbVars, guiVars>>

\* tracker.py 244-248: after the grace period, the liveness probe
StopProbe(p) ==
    /\ AtPc(p, "cli", "k_probe")
    /\ IF KillError(proc, proc[p].pid) = "EPERM"
       THEN Return(proc, p, "raised")
       ELSE /\ proc' = [proc EXCEPT
                          ![p].pc = IF KillError(proc, proc[p].pid) = "ESRCH"
                                    THEN "k_unlink" ELSE "k_kill",
                          ![p].probe = IF KillError(proc, proc[p].pid) = "ESRCH"
                                       THEN "gone" ELSE "alive"]
            /\ lastOp' = lastOp
    /\ UNCHANGED <<pid_file, lastSaw, overlap, invocations, loopVars, obsVars, pollVars, dbVars, guiVars>>

\* stop_daemon whose SIGKILL to a vanished process is handled as a failure
StopKill_Uncaught(p) ==
    /\ AtPc(p, "cli", "k_kill")
    /\ LET target == proc[p].pid
           sent2 == proc[p].sent \o <<"KILL">> IN
       IF KillError(proc, target) = "EPERM"
       THEN pid_file' = pid_file /\ Return(proc, p, "raised")
       ELSE IF KillError(proc, target) = "ok" /\ proc[target].st = "live" /\ target # p
       THEN /\ proc' = [Die(proc, target) EXCEPT ![p].pc = "k_unlink", ![p].sent = sent2]
            /\ lastOp' = lastOp /\ pid_file' = pid_file
       ELSE IF target = p
       THEN proc' = Die(proc, p) /\ lastOp' = lastOp /\ pid_file' = pid_file
       ELSE IF KillError(proc, target) = "ok"
       THEN /\ proc' = [proc EXCEPT ![p].pc = "k_unlink", ![p].sent = sent2]
            /\ lastOp' = lastOp /\ pid_file' = pid_file
       ELSE pid_file' = None /\ Return(Unlinked(proc, pid_file, None), p, "stop_false")
    /\ UNCHANGED <<lastSaw, overlap, invocations, loopVars, obsVars, pollVars, dbVars, guiVars>>

\* tracker.py 250-253: SIGKILL; a ProcessLookupError is passed over
StopKill(p) ==
    /\ AtPc(p, "cli", "k_kill")
    /\ LET target == proc[p].pid
           sent2 == proc[p].sent \o <<"KILL">> IN
       IF KillError(proc, target) = "EPERM"
       THEN Return(proc, p, "raised")
       ELSE /\ lastOp' = lastOp
            /\ IF KillError(proc, target) = "ok" /\ proc[target].st = "live" /\ target # p
               THEN proc' = [Die(proc, target) EXCEPT ![p].pc = "k_unlink", ![p].sent = sent2]
               ELSE IF target = p
               THEN proc' = Die(proc, p)
               ELSE IF KillError(proc, target) = "ok"
               THEN proc' = [proc EXCEPT ![p].pc = "k_unlink", ![p].sent = sent2]
               ELSE proc' = [proc EXCEPT ![p].pc = "k_unlink"]
    /\ UNCHANGED <<pid_file, lastSaw, overlap, invocations, loopVars, obsVars, pollVars, dbVars, guiVars>>

\* tracker.py 255-263: the marker is removed
StopUnlink(p) ==
    /\ AtPc(p, "cli", "k_unlink")
    /\ IF pid_file = None
       THEN pid_file' = pid_file /\ Return(proc, p, "stop_false")
       ELSE pid_file' = None /\ Return(Unlinked(proc, pid_file, None), p, "stop_true")
    /\ UNCHANGED <<lastSaw, overlap, invocations, loopVars, obsVars, pollVars, dbVars, guiVars>>

\* screentime.py 149-156: the status command
StatusCheck(p) ==
    /\ AtPc(p, "cli", "q_check")
    /\ LET r == is_running(proc, pid_file) IN
       /\ pid_file' = r.pid_file
       /\ lastSaw' = MarkerState(proc, pid_file)
       /\ Return(Unlinked(proc, pid_file, r.pid_file), p,
                 IF r.kind = "raise" THEN "raised"
                 ELSE IF r.val THEN "status_true" ELSE "status_false")
    /\ UNCHANGED <<overlap, invocations, loopVars, obsVars, pollVars, dbVars, guiVars>>

\* the command's process ends
CliExit(p) ==
    /\ AtPc(p, "cli", "exit")
    /\ proc' = Die(proc, p)
    /\ UNCHANGED <<pid_file, lastOp, lastSaw, overlap, invocations, loopVars, obsVars, pollVars, dbVars, guiVars>>

\* a pending SIGTERM terminates its target (no handler is installed)
Deliver(q) ==
    /\ proc[q].st = "live" /\ proc[q].sig = "term"
    /\ proc' = Die(proc, q)
    /\ UNCHANGED <<pid_file, lastOp, lastSaw, overlap, invocations, loopVars, obsVars, pollVars, dbVars, guiVars>>

DaemonInit ==
    /\ impl = "start" /\ env = [xdg |-> "X11", display |-> ":0", path |-> Commands]
    /\ interval = 1 /\ pc = "new"
    /\ clock = StartTime
    /\ last_window = None /\ last_check = None
    /\ running = FALSE
    /\ t_last_window = None /\ t_last_check = None
    /\ ticks = 0 /\ now = None /\ window_info = None
    /\ recorded = <<>> /\ notified = <<>> /\ order = <<>> /\ total = 0
    /\ uniform = FALSE /\ lastSeen = None /\ gap = 0
    /\ NoPoll
    /\ NoDaemon
    /\ NoBlocklist
    /\ NoStop

DaemonNext ==
    \/ Invoke
    \/ OtherSpawn
    \/ OtherExit
    \/ \E p \in Pids : StartCheck(p)
    \/ \E p \in Pids : StartFork(p)
    \/ \E p \in Pids : StartOpen(p)
    \/ \E p \in Pids : StartWrite(p)
    \/ \E p \in Pids : MidFork(p)
    \/ \E p \in Pids : MidExit(p)
    \/ \E p \in Pids : DaemonLoop(p)
    \/ \E p \in Pids : StopBegin(p)
    \/ \E p \in Pids : StopProbe(p)
    \/ \E p \in Pids : StopKill(p)
    \/ \E p \in Pids : StopUnlink(p)
    \/ \E p \in Pids : StatusCheck(p)
    \/ \E p \in Pids : CliExit(p)
    \/ \E p \in Pids : Deliver(p)

SpecDaemon == DaemonInit /\ [][DaemonNext]_vars

\* -------------------------------------------------------------------------
\* Properties of the accounting loop (Spec)
\* -------------------------------------------------------------------------
\* lastSample and lastCheckTime of the loop that runs
LastSample == IF impl = "start" THEN last_window ELSE t_last_window
LastCheck == IF impl = "start" THEN last_check ELSE t_last_check

\* a step that is one iteration of the loop
Tick == ticks' = ticks + 1

\* C1: at every tick a span is forwarded iff the poll returned a sample, the
\* sample equals lastSample, lastCheckTime is set and the whole seconds since
\* lastCheckTime are more than 0; the span carries the sample and that
\* duration, and at most one span is forwarded.
C1_SpanIffContinuous ==
    [][Tick =>
        LET wi == window_info'
            continuous == /\ wi # None /\ wi = LastSample /\ LastCheck # None
                          /\ (now'[1] - LastCheck[1]) \div Res > 0
        IN /\ (recorded' # <<>>) <=> continuous
           /\ continuous =>
                recorded' = << <<wi[1], wi[2], (now'[1] - LastCheck[1]) \div Res>> >>
           /\ Len(recorded') <= 1]_vars

C1_Witness == ticks >= 2 /\ recorded # <<>> /\ impl = "start"

\* C2: N >= 2 ticks that all report the same sample, exactly interval seconds
\* apart, from a fresh loop: the durations forwarded sum to (N-1) * interval.
C2_UniformTotal == (uniform /\ ticks >= 2) => total = (ticks - 1) * interval

C2_Witness == uniform /\ ticks >= 3 /\ impl = "start"

C4_OnlyConsecutive ==
    [][(Tick /\ recorded' # <<>>) => (ticks >= 1 /\ window_info = window_info')]_vars

\* C4 amended: a span is forwarded only at a tick whose sample equals the
\* sample of the latest earlier tick that returned one; ticks without sample
\* in between do not break the continuity.
C4_OnlyContinuous ==
    [][(Tick /\ recorded' # <<>>) =>
         /\ ticks >= 1
         /\ window_info' = (IF window_info # None THEN window_info ELSE lastSeen)]_vars

C4_Witness == recorded # <<>> /\ gap >= 1 /\ impl = "start"

\* C5: a tick without sample leaves lastSample unchanged, sets lastCheckTime
\* to its now and forwards nothing; a tick with a sample sets lastSample to
\* the sample and lastCheckTime to now.
C5_TickEffect ==
    [][Tick =>
        /\ LastCheck' = now'
        /\ window_info' = None => (LastSample' = LastSample /\ recorded' = <<>>)
        /\ window_info' # None => LastSample' = window_info']_vars

C5_Witness == ticks >= 2 /\ window_info = None /\ LastSample # None /\ impl = "start"

\* C6 as stated: no tick terminates the accounting loop, whatever fails in it.
C6_TickNeverKillsLoop == [][pc = "loop" => pc' # "dead"]_vars

\* -------------------------------------------------------------------------
\* Properties of a poll (SpecPoll)
\* -------------------------------------------------------------------------
Invoked(c) == \E i \in 1..Len(result.calls) : result.calls[i] = c
Detected == _detect_session_type(env)

\* some external program of the poll is missing, timed out, exited with a
\* status other than 0 or printed something malformed
InvocationFailed ==
    \/ /\ Detected.kind = "ret" /\ Detected.val = "x11"
       /\ \/ "xdotool" \notin env.path
          \/ Invoked(<<"xdotool", "getactivewindow">>) /\ outcome.x11.id # "ok"
          \/ Invoked(<<"xdotool", "getwindowname">>) /\ outcome.x11.title.st # "ok"
          \/ Invoked(<<"xdotool", "getwindowname">>) /\ outcome.x11.title.st \in {"ok", "nonzero"}
               /\ "xprop" \notin env.path
          \/ Invoked(<<"xprop", "WM_CLASS">>) /\ outcome.x11.cls.st # "ok"
    \/ /\ Detected.kind = "ret" /\ Detected.val = "wayland"
       /\ \/ {"swaymsg", "hyprctl"} \cap env.path = {}
          \/ "which" \notin env.path
          \/ Invoked(<<"swaymsg", "get_tree">>) /\ outcome.wl.sway.st # "ok"
          \/ Invoked(<<"hyprctl", "activewindow">>) /\ outcome.wl.hypr.st # "ok"

\* C7 as stated: whatever external program invocation fails, the poll returns
\* "no sample" and raises nothing.
C7_FailureIsNoSample ==
    (polled /\ InvocationFailed) => (result.kind = "ret" /\ result.val = None)

\* -------------------------------------------------------------------------
\* Properties of the daemon supervisor (SpecDaemon)
\* -------------------------------------------------------------------------
StatusResults == {"status_true", "status_false"}

\* the daemon processes that run the accounting loop
LoopingDaemons == {d \in Pids : AtPc(d, "daemon", "d_loop")}

\* C8 as stated: with commands that do not overlap, is_running() is false
\* before any start_daemon(), true right after a successful start_daemon()
\* (also once the caller has exited) and false right after a successful
\* stop_daemon().
C8_IsRunningFollowsLifecycle ==
    [][(~overlap' /\ lastOp' \in StatusResults) =>
         /\ lastOp = "none" => lastOp' = "status_false"
         /\ lastOp = "start_ok" => lastOp' = "status_true"
         /\ lastOp = "stop_true" => lastOp' = "status_false"]_vars

\* C9 as stated: after a successful start_daemon() the marker holds the PID
\* of the detached process that runs the accounting loop.
C9_MarkerNamesLoopProcess ==
    (lastOp = "start_ok" /\ ~overlap /\ LoopingDaemons # {})
        => \E d \in LoopingDaemons : pid_file = <<StrOfInt(d)>>

\* C10 as stated: with commands that do not overlap, at most one daemon
\* process running the accounting loop is alive.
C10_Singleton == ~overlap => Cardinality(LoopingDaemons) <= 1

\* process p leaves the function it was executing in this step
Returns(p) ==
    /\ proc[p].st = "live" /\ proc[p].role = "cli" /\ proc[p].pc # "exit"
    /\ proc'[p].st = "live" /\ proc'[p].pc = "exit"

\* process p takes the step that starts at pc_
Leaves(p, pc_) ==
    /\ AtPc(p, "cli", pc_)
    /\ proc'[p].st = "live" /\ proc'[p].pc # pc_

\* C11 as stated: with commands that do not overlap, a stop_daemon() that
\* follows a successful start_daemon() returns true and leaves no process
\* running the accounting loop.
C11_StopReallyStops ==
    [][\A p \in Pids :
         (~overlap /\ lastOp = "start_ok" /\ proc[p].op = "stop" /\ Returns(p))
             => (lastOp' = "stop_true" /\ LoopingDaemons' = {})]_vars

\* C12: a start_daemon() whose is_running() test finds the marked process
\* alive reports "already running" and changes nothing else: no process is
\* created, none is signalled, and the marker keeps its content.
C12_AlreadyRunningIsInert ==
    [][\A p \in Pids :
         (Leaves(p, "s_check") /\ MarkerState(proc, pid_file) = "alive")
             => /\ lastOp' = "start_already"
                /\ pid_file' = pid_file
                /\ proc' = [proc EXCEPT ![p].pc = "exit"]]_vars

C12_Witness == lastOp = "start_already" /\ lastSaw = "alive" /\ pid_file # None

\* C13: a stop_daemon() that finds the marker absent or unparsable returns
\* false without raising, signals no process, and leaves no marker behind.
C13_NothingToStop ==
    [][\A p \in Pids :
         (Leaves(p, "k_begin") /\ MarkerState(proc, pid_file) \in {"absent", "unparsable"})
             => /\ lastOp' = "stop_false"
                /\ pid_file' = None
                /\ proc'[p].sent = <<>>
                /\ \A q \in Pids : proc'[q].sig = proc[q].sig /\ proc'[q].st = proc[q].st]_vars

C13_Witness == lastOp = "stop_false" /\ lastSaw = "unparsable" /\ pid_file = None

\* the PID that stop_daemon in process p signals exists in this state
TargetExists(p) == KillError(proc, proc[p].pid) # "ESRCH"

\* C14 as stated: with commands that do not overlap, a stop_daemon() whose
\* marker names a live PID sends the graceful signal first, probes after the
\* grace period, sends the kill signal only when the probe found the process,
\* and ends by deleting the marker and returning true.
C14_EscalationOrder ==
    [][\A p \in Pids :
         /\ (~overlap /\ Leaves(p, "k_begin")
                /\ MarkerState(proc, pid_file) \in {"alive", "denied"})
              => (proc'[p].pc = "k_probe" /\ proc'[p].sent = <<"TERM">>)
         /\ (~overlap /\ Leaves(p, "k_probe"))
              => /\ proc'[p].sent = <<"TERM">>
                 /\ proc'[p].pc = IF TargetExists(p) THEN "k_kill" ELSE "k_unlink"
         /\ (~overlap /\ Leaves(p, "k_kill"))
              => /\ proc[p].probe = "alive"
                 /\ proc'[p].pc = "k_unlink"
                 /\ proc'[p].sent \in {<<"TERM">>, <<"TERM", "KILL">>}
         /\ (~overlap /\ Leaves(p, "k_unlink"))
              => (pid_file' = None /\ lastOp' = "stop_true")]_vars

\* the marker is stale: unparsable, or its PID is in no process table entry
Stale == MarkerState(proc, pid_file) \in {"dead", "unparsable"}

\* C15: is_running() and stop_daemon() answer a stale marker with false and
\* remove it; after any is_running() that returned false no marker is left.
C15_StaleMarkerHeals ==
    [][\A p \in Pids :
         /\ (Leaves(p, "q_check") /\ Stale)
              => (lastOp' = "status_false" /\ pid_file' = None)
         /\ (Leaves(p, "s_check") /\ Stale)
              => (proc'[p].pc = "s_fork" /\ pid_file' = None)
         /\ (Leaves(p, "k_begin") /\ Stale)
              => (lastOp' = "stop_false" /\ pid_file' = None)
         /\ (Leaves(p, "q_check") /\ lastOp' = "status_false") => pid_file' = None
         /\ (Leaves(p, "s_check") /\ proc'[p].pc = "s_fork") => pid_file' = None]_vars

C15_Witness == lastOp = "status_false" /\ lastSaw = "dead" /\ pid_file = None

\* C16 as stated: no is_running() and no stop_daemon() ends in an exception.
C16_NeverThrown == lastOp # "raised"

\* C17: nothing but the marker holds a start_daemon() back: when its test
\* finds no running tracker it goes on to fork, also while another
\* start_daemon() has passed the same test and not yet written the marker;
\* and the marker names at most one of the daemons.
C17_CheckThenActRace ==
    [][\A p \in Pids :
         /\ (Leaves(p, "s_check") /\ MarkerState(proc, pid_file) \notin {"alive", "denied"})
              => proc'[p].pc = "s_fork"
         /\ Cardinality({d \in LoopingDaemons : pid_file' = <<StrOfInt(d)>>}) <= 1]_vars

C17_Witness ==
    /\ Cardinality(LoopingDaemons) = 2
    /\ \E d \in LoopingDaemons : proc[d].raced
    /\ Cardinality({d \in LoopingDaemons : pid_file = <<StrOfInt(d)>>}) <= 1

\* -------------------------------------------------------------------------
\* Properties of session detection (SpecPoll) and of the blocklist (Spec)
\* -------------------------------------------------------------------------
UnknownSession == Detected.kind = "ret" /\ Detected.val = "unknown"

\* C18 as stated: a poll in a session of unknown kind runs no external
\* program at all and returns no sample.
C18_UnknownRunsNothing ==
    (polled /\ UnknownSession) => (result.kind = "ret" /\ result.val = None /\ result.calls = <<>>)

\* C18, amended: a poll in a session of unknown kind runs the two `which`
\* probes of session detection and no other program, and returns no sample.
C18_UnknownRunsProbesOnly ==
    (polled /\ UnknownSession)
        => /\ result.kind = "ret" /\ result.val = None
           /\ result.calls = << <<"which", "swaymsg">>, <<"which", "xdotool">> >>

C18_Witness == polled /\ UnknownSession /\ "hyprctl" \in env.path /\ Len(result.calls) = 2

\* C19 as stated: a set session-type signal alone decides the result; without
\* it the display signal, then swaymsg or hyprctl, then xdotool decide, and
\* the result is Unknown otherwise.
C19_DetectionPriority ==
    LET byPriority ==
            IF env.display # "" THEN "x11"
            ELSE IF {"swaymsg", "hyprctl"} \cap env.path # {} THEN "wayland"
            ELSE IF "xdotool" \in env.path THEN "x11"
            ELSE "unknown"
    IN polled =>
        /\ env.xdg # "" =>
             \A e \in Envs : e.xdg = env.xdg =>
                 /\ _detect_session_type(e).kind = Detected.kind
                 /\ _detect_session_type(e).val = Detected.val
        /\ env.xdg = "" => (Detected.kind = "ret" /\ Detected.val = byPriority)

\* C20 as stated: no iteration of the accounting loop passes a span of an
\* application that is on the blocklist to record_activity.
C20_BlockedAppIgnored ==
    [][ticks' # ticks =>
         \A i \in 1..Len(recorded') : recorded'[i][1] \notin blocklist]_vars

\* -------------------------------------------------------------------------
\* Properties of the window queries (SpecPoll)
\* -------------------------------------------------------------------------
X11Session == Detected.kind = "ret" /\ Detected.val = "x11"
Sampled == polled /\ result.kind = "ret" /\ result.val # None

\* C21 as stated: the application id of an X11 sample is the second
\* comma-separated field of what follows the `=` of the class query's output,
\* the only field when there is one, quotes stripped; it is "Unknown" when
\* the output has no `=` or the class query failed.
C21_ClassParsing ==
    (Sampled /\ X11Session) =>
        LET output == Strip(outcome.x11.cls.out, Whitespace)
            value == Strip(SubSeq(output, FirstIndex(output, "=") + 1, Len(output)), Whitespace)
            fields == Split(value, ",")
            field == IF Len(fields) >= 2 THEN fields[2] ELSE fields[1]
        IN result.val[1] = IF outcome.x11.cls.st = "ok" /\ Contains(output, "=")
                           THEN Strip(Strip(field, Whitespace), Quote)
                           ELSE Unknown

\* -------------------------------------------------------------------------
\* Properties of the GUI loop and of the two loops together (Spec)
\* -------------------------------------------------------------------------
\* C22 as stated: once stop() has been called on the thread, the loop begins
\* no further tick, whenever the call came.
C22_NoTickAfterStop == [][stop_called => ticks' = ticks]_vars

\* the tick posts one notification of its sample, before it records, and
\* goes on whatever the main loop has still to run
NotifiesSample ==
    /\ notified' = << <<window_info'[1], window_info'[2]>> >>
    /\ order' = <<"idle_add">> \o (IF recorded' # <<>> THEN <<"record_activity">> ELSE <<>>)
    /\ pending' = pending + 1

\* C23 as stated: in both loops a tick with a sample posts exactly one
\* notification of that sample, before any span is recorded and without
\* waiting; a tick without sample posts none.
C23_NotifyEachSample ==
    [][Tick => IF window_info' # None THEN NotifiesSample
               ELSE notified' = <<>> /\ pending' = pending]_vars

\* C23, amended: this is what TrackerThread.run does; ScreenTimeTracker.start
\* posts no notification at any tick.
C23_NotifyEachSampleInThread ==
    [][Tick => IF impl = "run" /\ window_info' # None THEN NotifiesSample
               ELSE notified' = <<>> /\ pending' = pending]_vars

C23_Witness ==
    /\ impl = "run" /\ ticks >= 2 /\ pending >= 2
    /\ order = <<"idle_add", "record_activity">>

\* the window-query backend that a poll which made these calls has used
Backend(calls) ==
    LET programs == {calls[i][1] : i \in 1..Len(calls)} IN
    IF programs \cap {"xdotool", "xprop"} # {} THEN "x11"
    ELSE IF "swaymsg" \in programs THEN "sway"
    ELSE IF "hyprctl" \in programs THEN "hyprland"
    ELSE "none"

C25_MarkerBeforeFirstTick ==
    (invocations = 1 /\ LoopingDaemons # {}) => pid_file # None

\* -------------------------------------------------------------------------
\* Properties of the Sway tree search and of the backends (SpecPoll)
\* -------------------------------------------------------------------------
\* the nodes of a tree in depth-first pre-order, the regular children of a
\* node before its floating children
RECURSIVE PreOrder(_)
RECURSIVE PreOrderAll(_)
PreOrderAll(children) ==
    IF children = <<>> THEN <<>>
    ELSE PreOrder(Head(children)) \o PreOrderAll(Tail(children))
PreOrder(node) == <<node>> \o PreOrderAll(node.nodes \o node.floating_nodes)

\* the positions of the focused nodes in that order
FocusedAt(tree) == {i \in 1..Len(PreOrder(tree)) : PreOrder(tree)[i].focused}

SwayAnswered == polled /\ outcome.wl.sway.st = "ok"

\* C26: the tree search returns the first focused node in pre-order, and
\* none exactly when no node of the tree is focused.
C26_TreeSearch ==
    SwayAnswered =>
        LET tree == outcome.wl.sway.out
            first == CHOOSE i \in FocusedAt(tree) : \A j \in FocusedAt(tree) : i <= j
        IN IF FocusedAt(tree) = {} THEN _find_focused_window(tree) = None
           ELSE _find_focused_window(tree) = <<PreOrder(tree)[first]>>

C26_Witness ==
    /\ SwayAnswered /\ Sampled /\ Invoked(<<"swaymsg", "get_tree">>)
    /\ Cardinality(FocusedAt(outcome.wl.sway.out)) = 2
    /\ ~outcome.wl.sway.out.focused
    /\ outcome.wl.sway.out.floating_nodes # <<>>
    /\ result.val = << <<"a">>, <<"p">> >>

\* C27 as stated: in an X11 session with xdotool installed, an identifier
\* query that exits non-zero ends the poll without sample and without further
\* query; after an identifier query that succeeded a sample is returned
\* unless a query timed out or could not be launched, with "Unknown" for the
\* title or the application whose query exited non-zero.
C27_X11QuerySequence ==
    (polled /\ X11Session /\ "xdotool" \in env.path) =>
        /\ outcome.x11.id = "nonzero" =>
             /\ result.kind = "ret" /\ result.val = None
             /\ ~Invoked(<<"xdotool", "getwindowname">>)
             /\ ~Invoked(<<"xprop", "WM_CLASS">>)
        /\ (/\ outcome.x11.id = "ok"
            /\ outcome.x11.title.st # "timeout" /\ outcome.x11.cls.st # "timeout"
            /\ "xprop" \in env.path) =>
             /\ Sampled
             /\ outcome.x11.title.st = "nonzero" => result.val[2] = Unknown
             /\ outcome.x11.cls.st = "nonzero" => result.val[1] = Unknown

WaylandSession == Detected.kind = "ret" /\ Detected.val = "wayland"

\* C28 as stated: in a Wayland session the poll queries swaymsg whenever
\* swaymsg is installed, queries hyprctl only when swaymsg is not installed
\* and hyprctl is, returns no sample and leaves hyprctl alone when the
\* swaymsg query exits non-zero or finds no focused node, and returns no
\* sample when neither is installed.
C28_WaylandBackendChoice ==
    (polled /\ WaylandSession) =>
        LET sway == "swaymsg" \in env.path
            hypr == "hyprctl" \in env.path
            nothing == result.kind = "ret" /\ result.val = None
        IN /\ sway => Invoked(<<"swaymsg", "get_tree">>)
           /\ Invoked(<<"hyprctl", "activewindow">>) => (~sway /\ hypr)
           /\ (sway /\ (\/ outcome.wl.sway.st = "nonzero"
                        \/ /\ outcome.wl.sway.st = "ok"
                           /\ FocusedAt(outcome.wl.sway.out) = {}))
                => (nothing /\ ~Invoked(<<"hyprctl", "activewindow">>))
           /\ (~sway /\ ~hypr) => nothing

\* -------------------------------------------------------------------------
\* The two loops compared, and the time they account for (Spec)
\* -------------------------------------------------------------------------
\* C29: both loops start with lastSample and lastCheckTime unset, and at
\* every tick of either loop the iteration of ScreenTimeTracker.start and the
\* iteration of TrackerThread.run, applied to the loop's state, the tick's
\* timestamp and its poll result, forward the same spans and leave the same
\* lastSample and lastCheckTime, which are those the loop then holds.
C29_LoopsEquivalent ==
    [][/\ ticks = 0 => (LastSample = None /\ LastCheck = None)
       /\ Tick =>
            LET s == StartBody(LastSample, LastCheck, now'[1], window_info')
                t == RunBody(LastSample, LastCheck, now'[1], window_info')
            IN /\ s.recorded = t.recorded
               /\ s.last_window = t.last_window /\ s.last_check = t.last_check
               /\ recorded' = s.recorded
               /\ LastSample' = s.last_window /\ LastCheck' = s.last_check]_vars

C29_Witness ==
    impl = "run" /\ ticks >= 3 /\ recorded # <<>> /\ total > Durations(recorded)

\* C30: the durations forwarded by a run sum to no more than the time from
\* its first tick to its latest tick, and every forwarded duration is positive.
C30_NoMoreThanElapsed ==
    ticks >= 1 =>
        /\ total * Res <= now[1] - StartTime
        /\ \A i \in 1..Len(recorded) : recorded[i][3] > 0

C30_Witness ==
    /\ impl = "start" /\ ticks >= 3 /\ recorded # <<>>
    /\ total >= 2 /\ total * Res < now[1] - StartTime

\* C32: a stop_daemon() whose SIGKILL finds no process (the marked process
\* exited after the probe had found it) does not raise and goes on to the
\* removal of the marker, which, with commands that do not overlap, deletes
\* the marker and returns true; a stop_daemon() whose marker names a PID that
\* is already gone at the SIGTERM deletes the marker and returns false.
C32_LateExitStillTrue ==
    [][\A p \in Pids :
         /\ (Leaves(p, "k_kill") /\ ~TargetExists(p))
              => /\ proc'[p].pc = "k_unlink"
                 /\ lastOp' = lastOp
                 /\ pid_file' = pid_file
         /\ (~overlap /\ Leaves(p, "k_unlink")
                /\ proc[p].probe = "alive" /\ proc[p].sent = <<"TERM">>)
              => (pid_file' = None /\ lastOp' = "stop_true")
         /\ (Leaves(p, "k_begin") /\ MarkerState(proc, pid_file) = "dead")
              => (pid_file' = None /\ lastOp' = "stop_false")]_vars

C32_Witness ==
    /\ ~overlap /\ lastOp = "stop_true" /\ pid_file = None
    /\ \E p \in Pids :
         /\ proc[p].st = "live" /\ proc[p].op = "stop" /\ proc[p].pc = "exit"
         /\ proc[p].probe = "alive" /\ proc[p].sent = <<"TERM">>

\* -------------------------------------------------------------------------
\* Properties of the GUI window (SpecGui)
\* -------------------------------------------------------------------------
\* the threads that are in their loop with the flag set
Forwarding == {t \in Threads : threads[t].st = "loop" /\ threads[t].running}

\* the latest spans of threads t and u cover a common stretch of time
Overlapping(t, u) ==
    /\ threads[t].span # None /\ threads[u].span # None
    /\ threads[t].span[1] < threads[u].span[2]
    /\ threads[u].span[1] < threads[t].span[2]

\* C31 as stated: at most one thread is forwarding spans, and no stretch of
\* time is in the spans of two threads.
C31_OneThreadForwards ==
    /\ Cardinality(Forwarding) <= 1
    /\ \A t, u \in Threads : t # u => ~Overlapping(t, u)

====
